---------------------------- MODULE Spec2Model ----------------------------
(***************************************************************************)
(* A model of playoffsbot's probabilistic core: the season-completion      *)
(* simulation (src/src/simulation.rs) and the analyzer that resolves the    *)
(* ideal loser of each game (src/src/analysis.rs).                          *)
(***************************************************************************)
EXTENDS Integers, Sequences, FiniteSets, TLC

\* The length of a regular season: the loop bound of Simulation::run.
GAMES == 82

\* The number of trials of one run_for call.  The program passes
\* TIMES = 50_000 (simulation.rs:12); the model runs this many.
Trials == 2

\* The number of teams of the conference whose finished season the
\* qualification step is applied to.
ConfSize == 8

\* The number of games the analyzer is given, today's and yesterday's together.
MaxGames == 2

VARIABLES
    teams,          \* Api.teams: team id -> [division, conference]
    my_team,        \* the target team's id
    records,        \* the standings slice handed to Simulation::new
    game,           \* the game pick_ideal_loser is asked about
    mode,           \* the entry point: "pick" (pick_ideal_loser), "odds" (odds_for_team),
                    \* "run_for" (Simulation::run_for alone), "perform" (the analyzer)
                    \* or "cheer_for" (Matchup::cheer_for alone)
    pc,             \* position in the code
    sim,            \* which Simulation is live: "home", "away", "odds" or "direct"
    base,           \* Simulation.base
    entries,        \* the working copy of one trial (run's local `entries`)
    x,              \* run_for's counter of qualifying trials
    trial,          \* run_for's loop counter
    times,          \* run_for's argument
    top_3_teams,    \* run's local set of division qualifiers (last trial)
    wildcard,       \* run's local set of wildcard qualifiers (last trial)
    qualified,      \* run's return value (last trial)
    home_win_x,     \* pick_ideal_loser's home_win_x
    away_win_x,     \* pick_ideal_loser's away_win_x
    ideal_loser,    \* the team id pick_ideal_loser returned (0: none yet)
    odds,           \* odds_for_team's result as <<numerator, denominator>>
    standings,      \* Api.standings
    past_standings, \* Api.past_standings
    api_games,      \* Api.games.games: today's games
    api_results,    \* Api.results.games: yesterday's games
    own_conference_team_ids,    \* Analyzer.own_conference_team_ids
    is_result,      \* perform is in its second loop, over the results
    gi,             \* the position of perform's current loop in its list
    my_game,        \* Analysis.my_game: <<>> for None, <<m>> for Some(m)
    games,          \* Analysis.games
    my_result,      \* Analysis.my_result: <<>> for None, <<m>> for Some(m)
    results,        \* Analysis.results
    own_division_seed,      \* Analysis.own_division_seed
    other_division_seed,    \* Analysis.other_division_seed
    wildcard_seed,          \* Analysis.wildcard_seed
    playoffs,       \* Analysis.playoffs
    moods,          \* the moods make_result_table renders, my_result's first
    cheers          \* what cheer_for gave make_game_table, my_game's first

\* The state of the live Simulation, of its trial and of its caller's results.
simVars == <<base, entries, x, trial, top_3_teams, wildcard, qualified, home_win_x,
             away_win_x, ideal_loser, odds>>

\* The state of the analyzer and of the tables rendered from its analysis.
anVars == <<standings, past_standings, api_games, api_results, own_conference_team_ids,
            is_result, gi, my_game, games, my_result, results, own_division_seed,
            other_division_seed, wildcard_seed, playoffs, moods, cheers>>

vars == <<teams, my_team, records, game, mode, pc, sim, base, entries, x, trial, times,
          top_3_teams, wildcard, qualified, home_win_x, away_win_x, ideal_loser, odds,
          anVars>>

-----------------------------------------------------------------------------
(* Data *)

Event == {"Win", "Loss", "Ot"}

\* Event::points with an overtime loss scored as a win.
EventPoints_OtAsWin(event) ==
    CASE event = "Win" -> 2
      [] event = "Loss" -> 0
      [] event = "Ot" -> 2

\* Event::points
EventPoints(event) ==
    CASE event = "Win" -> 2
      [] event = "Loss" -> 0
      [] event = "Ot" -> 1

\* The weight random_event gives each event: the base entry's own count.
Weight(b, event) ==
    CASE event = "Win" -> b.wins
      [] event = "Loss" -> b.losses
      [] event = "Ot" -> b.ot

\* random_event drawing with choose: every event, whatever its weight.
random_event_Uniform(b) == Event

\* random_event: choose_weighted draws an event of positive weight; when all
\* three weights are zero it returns Err and the unwrap panics (empty set).
random_event(b) == {event \in Event : Weight(b, event) > 0}

\* A standings record of a team with the given counts; the league awards
\* 2 points per win and 1 per overtime loss.
Rec(w, l, o) ==
    [wins |-> w, losses |-> l, ot |-> o, games_played |-> w + l + o, points |-> 2 * w + o]

TeamRecord(t, r) == [team |-> t] @@ r

Min(a, b) == IF a < b THEN a ELSE b

Take(s, n) == SubSeq(s, 1, Min(n, Len(s)))

Ids(s) == {s[i].team_id : i \in DOMAIN s}

-----------------------------------------------------------------------------
(* Simulation *)

\* The Entry Simulation::new pushes for one record.
EntryOf(record) ==
    [team_id |-> record.team,
     division_id |-> teams[record.team].division,
     wins |-> record.wins,
     losses |-> record.losses,
     ot |-> record.ot,
     games_played |-> record.games_played,
     points |-> record.points]

\* Simulation::new: the records of the target's conference, in order.
Simulation_new(recs) ==
    LET own == SelectSeq(recs,
                 LAMBDA r : teams[r.team].conference = teams[my_team].conference)
    IN [i \in 1..Len(own) |-> EntryOf(own[i])]

\* iter_mut().find(|x| x.team_id == team_id): the first matching index, 0 if none.
Find(b, team_id) ==
    IF \E i \in DOMAIN b : b[i].team_id = team_id
    THEN CHOOSE i \in DOMAIN b :
            /\ b[i].team_id = team_id
            /\ \A j \in 1..(i - 1) : b[j].team_id # team_id
    ELSE 0

\* Simulation::give_team_win
give_team_win(b, team_id) ==
    IF Find(b, team_id) = 0 THEN b
    ELSE [b EXCEPT ![Find(b, team_id)] =
            [@ EXCEPT !.wins = @ + 1, !.points = @ + 2, !.games_played = @ + 1]]

\* Simulation::give_team_loss without the game played.
give_team_loss_NoGame(b, team_id) ==
    IF Find(b, team_id) = 0 THEN b
    ELSE [b EXCEPT ![Find(b, team_id)] = [@ EXCEPT !.losses = @ + 1]]

\* Simulation::give_team_loss
give_team_loss(b, team_id) ==
    IF Find(b, team_id) = 0 THEN b
    ELSE [b EXCEPT ![Find(b, team_id)] =
            [@ EXCEPT !.losses = @ + 1, !.games_played = @ + 1]]

\* The body of run's while loop for one drawn event.
ApplyEvent(entry, event) ==
    [entry EXCEPT !.games_played = @ + 1,
                  !.points = @ + EventPoints(event),
                  !.wins = IF event = "Win" THEN @ + 1 ELSE @,
                  !.losses = IF event = "Loss" THEN @ + 1 ELSE @,
                  !.ot = IF event = "Ot" THEN @ + 1 ELSE @]

\* The sort key Reverse((points, wins)): a sorts strictly before b.
Before(a, b) ==
    \/ a.points > b.points
    \/ a.points = b.points /\ a.wins > b.wins

\* sort_unstable_by_key: every arrangement of s in key order; the order of
\* entries with equal keys is whatever the sort leaves.
RECURSIVE Orders(_, _)
Orders(s, I) ==
    IF I = {} THEN {<<>>}
    ELSE LET first == {i \in I : \A j \in I : ~Before(s[j], s[i])}
         IN UNION {{<<s[i]>> \o t : t \in Orders(s, I \ {i})} : i \in first}

sort_unstable_by_key(s) == Orders(s, DOMAIN s)

\* run's top_3_teams with the other division's berths left out.
top_3_of_OwnOnly(srt) ==
    Ids(Take(SelectSeq(srt, LAMBDA e : e.division_id = teams[my_team].division), 3))

\* run's top_3_teams: the first 3 of the target's division and the first 3
\* of the entries of any other division.
top_3_of(srt) ==
    Ids(Take(SelectSeq(srt, LAMBDA e : e.division_id = teams[my_team].division), 3))
    \cup
    Ids(Take(SelectSeq(srt, LAMBDA e : e.division_id # teams[my_team].division), 3))

\* run's wildcard with a single slot.
wildcard_of_One(srt, top3) ==
    Ids(Take(SelectSeq(srt, LAMBDA e : e.team_id \notin top3), 1))

\* run's wildcard without the filter on top_3_teams.
wildcard_of_Unfiltered(srt, top3) == Ids(Take(srt, 2))

\* run's wildcard: the first 2 entries that are not in top_3_teams.
wildcard_of(srt, top3) ==
    Ids(Take(SelectSeq(srt, LAMBDA e : e.team_id \notin top3), 2))

\* run's return value.
qualifies(top3, wc) == my_team \in top3 \/ my_team \in wc

\* The final comparison with its two arms exchanged.
compare_Swapped(hx, ax, g) == IF hx > ax THEN g.home ELSE g.away

\* The final comparison with >= for >.
compare_TieAway(hx, ax, g) == IF hx >= ax THEN g.away ELSE g.home

\* The team the final comparison of pick_ideal_loser returns.
compare(hx, ax, g) == IF hx > ax THEN g.away ELSE g.home

\* The index run's for loop is at, with while games_played < 81.
Current_Short(es) ==
    IF \E i \in DOMAIN es : es[i].games_played < GAMES - 1
    THEN CHOOSE i \in DOMAIN es :
            /\ es[i].games_played < GAMES - 1
            /\ \A j \in 1..(i - 1) : es[j].games_played >= GAMES - 1
    ELSE 0

\* The index run's for loop is at: the first entry still short of GAMES.
Current(es) ==
    IF \E i \in DOMAIN es : es[i].games_played < GAMES
    THEN CHOOSE i \in DOMAIN es :
            /\ es[i].games_played < GAMES
            /\ \A j \in 1..(i - 1) : es[j].games_played >= GAMES
    ELSE 0

\* run_for's range as 0..=times.
RangeHasNext_Inclusive(i, n) == i <= n

\* run_for's `for _ in 0..times` after i iterations: another one follows.
RangeHasNext(i, n) == i < n

-----------------------------------------------------------------------------
(* Actions *)

\* Simulation::new, at the head of pick_ideal_loser (twice) and odds_for_team.
New ==
    /\ pc = "new"
    /\ base' = Simulation_new(records)
    /\ pc' = IF sim \in {"odds", "direct"} THEN "run_for" ELSE "give_win"
    /\ x' = 0
    /\ trial' = 0
    /\ UNCHANGED <<anVars, times, teams, my_team, records, game, mode, sim, entries, top_3_teams,
                   wildcard, qualified, home_win_x, away_win_x, ideal_loser, odds>>

\* home_win_sim.give_team_win(home) / away_win_sim.give_team_win(away)
GiveTeamWin ==
    /\ pc = "give_win"
    /\ base' = give_team_win(base, IF sim = "home" THEN game.home ELSE game.away)
    /\ pc' = "give_loss"
    /\ UNCHANGED <<anVars, times, teams, my_team, records, game, mode, sim, entries, x, trial,
                   top_3_teams, wildcard, qualified, home_win_x, away_win_x,
                   ideal_loser, odds>>

\* home_win_sim.give_team_loss(away) / away_win_sim.give_team_loss(home)
GiveTeamLoss ==
    /\ pc = "give_loss"
    /\ base' = give_team_loss(base, IF sim = "home" THEN game.away ELSE game.home)
    /\ pc' = "run_for"
    /\ UNCHANGED <<anVars, times, teams, my_team, records, game, mode, sim, entries, x, trial,
                   top_3_teams, wildcard, qualified, home_win_x, away_win_x,
                   ideal_loser, odds>>

\* One more iteration of run_for's loop: run clones the base; its other
\* locals are fresh.
RunBegin ==
    /\ pc = "run_for"
    /\ RangeHasNext(trial, times)
    /\ entries' = base
    /\ top_3_teams' = {}
    /\ wildcard' = {}
    /\ qualified' = FALSE
    /\ pc' = "run"
    /\ UNCHANGED <<anVars, times, teams, my_team, records, game, mode, sim, base, x, trial,
                   home_win_x, away_win_x, ideal_loser, odds>>

\* One iteration of run's while loop working on the base itself.
SampleGame_InPlace ==
    /\ pc = "run"
    /\ Current(entries) # 0
    /\ \E event \in random_event(base[Current(entries)]) :
          entries' = [entries EXCEPT ![Current(entries)] = ApplyEvent(@, event)]
    /\ base' = entries'
    /\ UNCHANGED <<anVars, times, teams, my_team, records, game, mode, pc, sim, x, trial,
                   top_3_teams, wildcard, qualified, home_win_x, away_win_x,
                   ideal_loser, odds>>

\* One iteration of run's while loop: a drawn event applied to the entry.
SampleGame ==
    /\ pc = "run"
    /\ Current(entries) # 0
    /\ \E event \in random_event(base[Current(entries)]) :
          entries' = [entries EXCEPT ![Current(entries)] = ApplyEvent(@, event)]
    /\ UNCHANGED <<anVars, times, teams, my_team, records, game, mode, pc, sim, base, x, trial,
                   top_3_teams, wildcard, qualified, home_win_x, away_win_x,
                   ideal_loser, odds>>

\* random_event's unwrap on a base entry whose three counts are all zero.
SamplePanic ==
    /\ pc = "run"
    /\ Current(entries) # 0
    /\ random_event(base[Current(entries)]) = {}
    /\ pc' = "panic"
    /\ UNCHANGED <<anVars, times, teams, my_team, records, game, mode, sim, base, entries, x, trial,
                   top_3_teams, wildcard, qualified, home_win_x, away_win_x,
                   ideal_loser, odds>>

\* The rest of run once every entry has played GAMES: the sort, the two
\* sets and the verdict, counted by run_for.
RunFinish ==
    /\ pc = "run"
    /\ Current(entries) = 0
    /\ \E srt \in sort_unstable_by_key(entries) :
          /\ entries' = srt
          /\ top_3_teams' = top_3_of(srt)
          /\ wildcard' = wildcard_of(srt, top_3_of(srt))
          /\ qualified' = qualifies(top_3_of(srt), wildcard_of(srt, top_3_of(srt)))
          /\ x' = IF qualifies(top_3_of(srt), wildcard_of(srt, top_3_of(srt)))
                  THEN x + 1 ELSE x
    /\ trial' = trial + 1
    /\ pc' = "run_for"
    /\ UNCHANGED <<anVars, times, teams, my_team, records, game, mode, sim, base, home_win_x,
                   away_win_x, ideal_loser, odds>>

\* run_for returns x to pick_ideal_loser's first simulation; the locals of
\* the last run are gone.
HomeSimReturn ==
    /\ pc = "run_for"
    /\ ~RangeHasNext(trial, times)
    /\ sim = "home"
    /\ home_win_x' = x
    /\ sim' = "away"
    /\ pc' = "new"
    /\ entries' = <<>>
    /\ top_3_teams' = {}
    /\ wildcard' = {}
    /\ qualified' = FALSE
    /\ UNCHANGED <<anVars, times, teams, my_team, records, game, mode, base, x, trial,
                   away_win_x, ideal_loser, odds>>

\* run_for returns x to pick_ideal_loser's second simulation, and
\* pick_ideal_loser compares the two counts.
AwaySimReturn ==
    /\ pc = "run_for"
    /\ ~RangeHasNext(trial, times)
    /\ sim = "away"
    /\ away_win_x' = x
    /\ ideal_loser' = compare(home_win_x, x, game)
    /\ pc' = "picked"
    /\ entries' = <<>>
    /\ top_3_teams' = {}
    /\ wildcard' = {}
    /\ qualified' = FALSE
    /\ UNCHANGED <<anVars, times, teams, my_team, records, game, mode, sim, base, x,
                   trial, home_win_x, odds>>

\* run_for returns x to odds_for_team, which divides it by the trial count.
OddsReturn ==
    /\ pc = "run_for"
    /\ ~RangeHasNext(trial, times)
    /\ sim = "odds"
    /\ odds' = <<x, times>>
    /\ pc' = "done"
    /\ entries' = <<>>
    /\ top_3_teams' = {}
    /\ wildcard' = {}
    /\ qualified' = FALSE
    /\ UNCHANGED <<anVars, times, teams, my_team, records, game, mode, sim, base, x,
                   trial, home_win_x, away_win_x, ideal_loser>>

\* run_for returns x to a caller that asked for the count alone.
RunForReturn ==
    /\ pc = "run_for"
    /\ ~RangeHasNext(trial, times)
    /\ sim = "direct"
    /\ pc' = "returned"
    /\ entries' = <<>>
    /\ top_3_teams' = {}
    /\ wildcard' = {}
    /\ qualified' = FALSE
    /\ UNCHANGED <<anVars, times, teams, my_team, records, game, mode, sim, base, x,
                   trial, home_win_x, away_win_x, ideal_loser, odds>>

-----------------------------------------------------------------------------
(* The simulation on a late-season conference *)

\* Team ids 1..3 are the target and two rivals still playing; 4..6 lead the
\* target's division with a finished season; 7 is alone in the other
\* division; 8 plays in the other conference.
SimTeams ==
    [t \in 1..8 |->
        [division |-> IF t \in 1..6 THEN 1 ELSE IF t = 7 THEN 2 ELSE 3,
         conference |-> IF t = 8 THEN 2 ELSE 1]]

\* The records a team still in the race may hold.
RaceRecords ==
    {Rec(41, 31, 9), Rec(40, 32, 9), Rec(44, 36, 0), Rec(0, 0, 0)}

SimStandings(r1, r2, r3) ==
    <<TeamRecord(8, Rec(50, 28, 4)),
      TeamRecord(4, Rec(48, 30, 4)),
      TeamRecord(5, Rec(47, 31, 4)),
      TeamRecord(6, Rec(46, 32, 4)),
      TeamRecord(2, r2),
      TeamRecord(1, r1),
      TeamRecord(3, r3),
      TeamRecord(7, Rec(36, 38, 8))>>

Game(h, a) == [home |-> h, away |-> a, home_score |-> 0, away_score |-> 0,
               current_period |-> 0]

\* No analyzer: the simulation is entered directly.
NoAnalyzer ==
    /\ standings = <<>>
    /\ past_standings = <<>>
    /\ api_games = <<>>
    /\ api_results = <<>>
    /\ own_conference_team_ids = {}
    /\ is_result = FALSE
    /\ gi = 0
    /\ my_game = <<>>
    /\ games = <<>>
    /\ my_result = <<>>
    /\ results = <<>>
    /\ own_division_seed = <<>>
    /\ other_division_seed = <<>>
    /\ wildcard_seed = <<>>
    /\ playoffs = <<>>
    /\ moods = <<>>
    /\ cheers = <<>>

Init ==
    /\ teams = SimTeams
    /\ my_team = 1
    /\ \E r1 \in RaceRecords, r2 \in RaceRecords, r3 \in RaceRecords \ {Rec(0, 0, 0)} :
          records = SimStandings(r1, r2, r3)
    /\ mode \in {"pick", "odds", "run_for"}
    /\ \E h \in 2..4, a \in 2..4 :
          /\ h # a
          /\ mode # "pick" => h = 2 /\ a = 3
          /\ game = Game(h, a)
    /\ sim = CASE mode = "pick" -> "home"
               [] mode = "odds" -> "odds"
               [] mode = "run_for" -> "direct"
    /\ pc = "new"
    /\ base = <<>>
    /\ entries = <<>>
    /\ x = 0
    /\ trial = 0
    /\ times \in IF mode = "run_for" THEN 0..Trials ELSE {Trials}
    /\ top_3_teams = {}
    /\ wildcard = {}
    /\ qualified = FALSE
    /\ home_win_x = 0
    /\ away_win_x = 0
    /\ ideal_loser = 0
    /\ odds = <<0, 0>>
    /\ NoAnalyzer

Next ==
    \/ New
    \/ GiveTeamWin
    \/ GiveTeamLoss
    \/ RunBegin
    \/ SampleGame
    \/ SamplePanic
    \/ RunFinish
    \/ HomeSimReturn
    \/ AwaySimReturn
    \/ OddsReturn
    \/ RunForReturn

Spec == Init /\ [][Next]_vars

\* The program is one thread that keeps running until it returns or panics.
FairSpec == Spec /\ WF_vars(Next)

-----------------------------------------------------------------------------
(* The qualification step on a finished season *)

\* The record at place i of a finished season: places 2k-1 and 2k hold the
\* same points and differ by one win; place 2k+1 holds two points less.
Ladder(i) ==
    LET k == (i + 1) \div 2
    IN IF i % 2 = 1 THEN Rec(51 - k, 27 + k, 4) ELSE Rec(50 - k, 26 + k, 6)

\* Team i holds the record of place i, or that of place i-1 when it ended
\* level with team i-1 on both points and wins.
Place(i, tied) == IF (i - 1) \in tied THEN i - 1 ELSE i

\* The places i at which teams i and i+1 ended level: none, one pair or
\* two separate pairs.
TiedPairs ==
    {tied \in SUBSET (1..(ConfSize - 1)) :
        /\ Cardinality(tied) <= 2
        /\ \A i \in tied : (i + 1) \notin tied}

\* The standings of the finished season, listed from the last team up.
QualStandings(tied) ==
    [i \in 1..ConfSize |->
        TeamRecord(ConfSize + 1 - i, Ladder(Place(ConfSize + 1 - i, tied)))]

\* A single trial, run_for(1), on a conference of ConfSize teams in which
\* the target's division is division 1.
InitQual ==
    /\ \E own \in SUBSET (1..ConfSize), tied \in TiedPairs :
          /\ my_team \in own
          /\ teams = [t \in 1..ConfSize |->
                        [division |-> IF t \in own THEN 1 ELSE 2, conference |-> 1]]
          /\ records = QualStandings(tied)
    /\ game = Game(1, 2)
    /\ mode = "odds"
    /\ sim = "odds"
    /\ pc = "new"
    /\ base = <<>>
    /\ entries = <<>>
    /\ x = 0
    /\ trial = 0
    /\ times = 1
    /\ top_3_teams = {}
    /\ wildcard = {}
    /\ qualified = FALSE
    /\ home_win_x = 0
    /\ away_win_x = 0
    /\ ideal_loser = 0
    /\ odds = <<0, 0>>
    /\ NoAnalyzer

NextQual ==
    \/ New
    \/ RunBegin
    \/ RunFinish

SpecQual == InitQual /\ [][NextQual]_vars

-----------------------------------------------------------------------------
(* Analyzer *)

\* Game::loser
loser(g) == IF g.home_score > g.away_score THEN g.away ELSE g.home

\* Game::overtime with the test of Game::shootout.
overtime_Shootout(g) == g.current_period > 4

\* Game::overtime
overtime(g) == g.current_period > 3

\* Matchup::cheer_for without its last arm.
cheer_for_NoCheck(m) ==
    IF m.game.home = m.ideal_loser
    THEN [team |-> m.game.away]
    ELSE [team |-> m.game.home]

\* Matchup::cheer_for: the participant that is not the ideal loser, or the
\* panic of its last arm.
cheer_for(m) ==
    IF m.game.home = m.ideal_loser
    THEN [team |-> m.game.away]
    ELSE IF m.game.away = m.ideal_loser
         THEN [team |-> m.game.home]
    ELSE [panic |-> "invalid match loser"]

\* Matchup::get_mood
get_mood(m) ==
    IF loser(m.game) = m.ideal_loser
    THEN IF overtime(m.game) THEN "Good" ELSE "Great"
    ELSE "Bad"

\* MatchupPre::create: is_my_team_involed
is_my_team_involed(g) == g.away = my_team \/ g.home = my_team

\* MatchupPre::is_relevant asking for both participants in the conference.
is_relevant_Both(g) ==
    \/ is_my_team_involed(g)
    \/ /\ g.home \in own_conference_team_ids
       /\ g.away \in own_conference_team_ids

\* MatchupPre::is_relevant
is_relevant(g) ==
    \/ is_my_team_involed(g)
    \/ g.home \in own_conference_team_ids
    \/ g.away \in own_conference_team_ids

\* pick_winner's if-chain without its first arm.
Branch_NoMine(g) ==
    IF g.home \in own_conference_team_ids /\ g.away \notin own_conference_team_ids
    THEN "home"
    ELSE IF g.away \in own_conference_team_ids /\ g.home \notin own_conference_team_ids
         THEN "away"
    ELSE "simulate"

\* The arm of pick_winner's if-chain a game takes.
Branch(g) ==
    IF is_my_team_involed(g) THEN "mine"
    ELSE IF g.home \in own_conference_team_ids /\ g.away \notin own_conference_team_ids
         THEN "home"
    ELSE IF g.away \in own_conference_team_ids /\ g.home \notin own_conference_team_ids
         THEN "away"
    ELSE "simulate"

\* The three arms with the conference arms returning the other participant.
DirectLoser_Outsider(g) ==
    CASE Branch(g) = "mine" -> IF my_team = g.home THEN g.away ELSE g.home
      [] Branch(g) = "home" -> g.away
      [] Branch(g) = "away" -> g.home

\* The ideal loser of the three arms of pick_winner that run no simulation.
DirectLoser(g) ==
    CASE Branch(g) = "mine" -> IF my_team = g.home THEN g.away ELSE g.home
      [] Branch(g) = "home" -> g.home
      [] Branch(g) = "away" -> g.away

\* The Matchup pick_winner builds.
Matchup(g, res, l) ==
    [game |-> g, is_result |-> res, is_my_team_involed |-> is_my_team_involed(g),
     ideal_loser |-> l]

\* The list perform's current loop runs over.
CurrentList == IF is_result THEN api_results ELSE api_games

\* The seed lists with the wildcard seeds numbered by the list's length
\* before the push, without the + 1.
RECURSIVE SeedsOf_FromZero(_)
SeedsOf_FromZero(n) ==
    IF n = 0 THEN [own |-> <<>>, other |-> <<>>, wc |-> <<>>]
    ELSE LET prev == SeedsOf_FromZero(n - 1)
             record == standings[n]
             Wild == [prev EXCEPT !.wc = Append(@, [seed |-> Len(prev.wc),
                                                    record |-> record])]
         IN IF record.team \notin own_conference_team_ids THEN prev
            ELSE IF teams[record.team].division = teams[my_team].division
            THEN IF Len(prev.own) < 3
                 THEN [prev EXCEPT !.own = Append(@, [seed |-> Len(prev.own) + 1,
                                                      record |-> record])]
                 ELSE Wild
            ELSE IF Len(prev.other) < 3
                 THEN [prev EXCEPT !.other = Append(@, [seed |-> Len(prev.other) + 1,
                                                        record |-> record])]
                 ELSE Wild

\* perform's seed lists after the first n records of the standings.
RECURSIVE SeedsOf(_)
SeedsOf(n) ==
    IF n = 0 THEN [own |-> <<>>, other |-> <<>>, wc |-> <<>>]
    ELSE LET prev == SeedsOf(n - 1)
             record == standings[n]
             Wild == [prev EXCEPT !.wc = Append(@, [seed |-> Len(prev.wc) + 1,
                                                    record |-> record])]
         IN IF record.team \notin own_conference_team_ids THEN prev
            ELSE IF teams[record.team].division = teams[my_team].division
            THEN IF Len(prev.own) < 3
                 THEN [prev EXCEPT !.own = Append(@, [seed |-> Len(prev.own) + 1,
                                                      record |-> record])]
                 ELSE Wild
            ELSE IF Len(prev.other) < 3
                 THEN [prev EXCEPT !.other = Append(@, [seed |-> Len(prev.other) + 1,
                                                        record |-> record])]
                 ELSE Wild

\* tops without the sort: the own division's leader first.
Tops_Unsorted(own, other) == {<<own[1], other[1]>>}

\* tops: the two division leaders after sort_unstable_by_key on
\* Reverse(points); leaders level on points come out in either order.
Tops(own, other) ==
    {t \in {<<own[1], other[1]>>, <<other[1], own[1]>>} :
        t[1].record.points >= t[2].record.points}

PlayoffMatchup(high, low) == [high_team |-> high, low_team |-> low]

\* perform's bracket.
PlayoffsOf(tops, own, other, wc) ==
    <<PlayoffMatchup(tops[1].record, wc[2].record),
      PlayoffMatchup(tops[2].record, wc[1].record),
      PlayoffMatchup(own[2].record, own[3].record),
      PlayoffMatchup(other[2].record, other[3].record)>>

\* Analyzer::new
AnalyzerNew ==
    /\ pc = "analyzer_new"
    /\ own_conference_team_ids' =
          {t \in DOMAIN teams : teams[t].conference = teams[my_team].conference}
    /\ is_result' = FALSE
    /\ gi' = 1
    /\ pc' = "perform"
    /\ UNCHANGED <<teams, my_team, records, game, mode, sim, times, simVars,
                   standings, past_standings, api_games, api_results, my_game, games,
                   my_result, results, own_division_seed, other_division_seed,
                   wildcard_seed, playoffs, moods, cheers>>

\* A loop iteration of perform on a game that is not relevant.
PerformSkip ==
    /\ pc = "perform"
    /\ gi <= Len(CurrentList)
    /\ ~is_relevant(CurrentList[gi])
    /\ gi' = gi + 1
    /\ UNCHANGED <<teams, my_team, records, game, mode, pc, sim, times, simVars,
                   standings, past_standings, api_games, api_results,
                   own_conference_team_ids, is_result, my_game, games, my_result,
                   results, own_division_seed, other_division_seed, wildcard_seed,
                   playoffs, moods, cheers>>

\* What perform does with the Matchup m of a relevant game.
Keep(m) ==
    /\ my_game' = IF m.is_my_team_involed /\ ~is_result THEN <<m>> ELSE my_game
    /\ games' = IF ~m.is_my_team_involed /\ ~is_result THEN Append(games, m) ELSE games
    /\ my_result' = IF m.is_my_team_involed /\ is_result THEN <<m>> ELSE my_result
    /\ results' = IF ~m.is_my_team_involed /\ is_result THEN Append(results, m) ELSE results

\* A loop iteration of perform on a relevant game that pick_winner resolves
\* without a simulation.
PerformResolve ==
    /\ pc = "perform"
    /\ gi <= Len(CurrentList)
    /\ is_relevant(CurrentList[gi])
    /\ Branch(CurrentList[gi]) # "simulate"
    /\ Keep(Matchup(CurrentList[gi], is_result, DirectLoser(CurrentList[gi])))
    /\ gi' = gi + 1
    /\ UNCHANGED <<teams, my_team, records, game, mode, pc, sim, times, simVars,
                   standings, past_standings, api_games, api_results,
                   own_conference_team_ids, is_result, own_division_seed,
                   other_division_seed, wildcard_seed, playoffs, moods, cheers>>

\* A loop iteration of perform on a relevant game that pick_winner hands to
\* simulation::pick_ideal_loser, with the standings of the game's day.
PerformSimulate ==
    /\ pc = "perform"
    /\ gi <= Len(CurrentList)
    /\ is_relevant(CurrentList[gi])
    /\ Branch(CurrentList[gi]) = "simulate"
    /\ game' = CurrentList[gi]
    /\ records' = IF is_result THEN past_standings ELSE standings
    /\ mode' = "pick"
    /\ sim' = "home"
    /\ pc' = "new"
    /\ UNCHANGED <<teams, my_team, times, simVars, anVars>>

\* pick_ideal_loser has returned: pick_winner builds the Matchup and perform
\* keeps it; the two simulations and the counts are gone.
PerformPicked ==
    /\ pc = "picked"
    /\ Keep(Matchup(game, is_result, ideal_loser))
    /\ gi' = gi + 1
    /\ pc' = "perform"
    /\ base' = <<>>
    /\ x' = 0
    /\ trial' = 0
    /\ home_win_x' = 0
    /\ away_win_x' = 0
    /\ ideal_loser' = 0
    /\ UNCHANGED <<teams, my_team, records, game, mode, sim, times, entries,
                   top_3_teams, wildcard, qualified, odds,
                   standings, past_standings, api_games, api_results,
                   own_conference_team_ids, is_result, own_division_seed,
                   other_division_seed, wildcard_seed, playoffs, moods, cheers>>

\* The loop over today's games is over; the loop over the results starts.
PerformResults ==
    /\ pc = "perform"
    /\ gi > Len(CurrentList)
    /\ ~is_result
    /\ is_result' = TRUE
    /\ gi' = 1
    /\ UNCHANGED <<teams, my_team, records, game, mode, pc, sim, times, simVars,
                   standings, past_standings, api_games, api_results,
                   own_conference_team_ids, my_game, games, my_result, results,
                   own_division_seed, other_division_seed, wildcard_seed, playoffs,
                   moods, cheers>>

\* The rest of perform: the seed lists and the bracket, whose indexing
\* panics on a list that is too short.
PerformSeeds ==
    /\ pc = "perform"
    /\ gi > Len(CurrentList)
    /\ is_result
    /\ LET sd == SeedsOf(Len(standings))
       IN /\ own_division_seed' = sd.own
          /\ other_division_seed' = sd.other
          /\ wildcard_seed' = sd.wc
          /\ IF Len(sd.own) < 3 \/ Len(sd.other) < 3 \/ Len(sd.wc) < 2
             THEN /\ playoffs' = <<>>
                  /\ pc' = "panic"
             ELSE /\ \E tops \in Tops(sd.own, sd.other) :
                        playoffs' = PlayoffsOf(tops, sd.own, sd.other, sd.wc)
                  /\ pc' = "analyzed"
    /\ UNCHANGED <<teams, my_team, records, game, mode, sim, times, simVars,
                   standings, past_standings, api_games, api_results,
                   own_conference_team_ids, is_result, gi, my_game, games, my_result,
                   results, moods, cheers>>

\* MarkdownGenerator::markdown's two result tables: make_result_table asks
\* every result Matchup for its mood.
MakeResultTables ==
    /\ pc = "analyzed"
    /\ moods' = [i \in 1..Len(my_result \o results) |-> get_mood((my_result \o results)[i])]
    /\ pc' = "done"
    /\ UNCHANGED <<teams, my_team, records, game, mode, sim, times, simVars,
                   standings, past_standings, api_games, api_results,
                   own_conference_team_ids, is_result, gi, my_game, games, my_result,
                   results, own_division_seed, other_division_seed, wildcard_seed,
                   playoffs, cheers>>

\* The Matchups make_game_table is handed: my_game's, then games.
Tonight == my_game \o games

\* The index of the first Matchup of tonight's on which cheer_for panics,
\* 0 if there is none.
FirstPanic ==
    IF \E i \in DOMAIN Tonight : cheer_for(Tonight[i]) = [panic |-> "invalid match loser"]
    THEN CHOOSE i \in DOMAIN Tonight :
            /\ cheer_for(Tonight[i]) = [panic |-> "invalid match loser"]
            /\ \A j \in 1..(i - 1) : cheer_for(Tonight[j]) # [panic |-> "invalid match loser"]
    ELSE 0

\* MarkdownGenerator::markdown's two game tables: make_game_table asks every
\* Matchup of tonight's whom to cheer for, up to a panic of cheer_for.
MakeGameTables ==
    /\ pc = "done"
    /\ IF FirstPanic = 0
       THEN /\ cheers' = [i \in DOMAIN Tonight |-> cheer_for(Tonight[i])]
            /\ pc' = "rendered"
       ELSE /\ cheers' = [i \in 1..FirstPanic |-> cheer_for(Tonight[i])]
            /\ pc' = "panic"
    /\ UNCHANGED <<teams, my_team, records, game, mode, sim, times, simVars,
                   standings, past_standings, api_games, api_results,
                   own_conference_team_ids, is_result, gi, my_game, games, my_result,
                   results, own_division_seed, other_division_seed, wildcard_seed,
                   playoffs, moods>>

-----------------------------------------------------------------------------
(* The analyzer late in a season *)

\* Conference 1 holds division 1 (teams 1..5) and division 2 (teams 6..9);
\* teams 10 and 11 play in conference 2.
AnTeams ==
    [t \in 1..11 |->
        [division |-> IF t \in 1..5 THEN 1 ELSE IF t \in 6..9 THEN 2 ELSE 3,
         conference |-> IF t \in 1..9 THEN 1 ELSE 2]]

\* Today's standings: teams 1, 2, 3 and 10 have a game left.
AnStandings ==
    <<TeamRecord(4, Rec(48, 30, 4)),
      TeamRecord(6, Rec(47, 30, 5)),
      TeamRecord(5, Rec(47, 31, 4)),
      TeamRecord(10, Rec(46, 31, 4)),
      TeamRecord(7, Rec(46, 32, 4)),
      TeamRecord(8, Rec(45, 33, 4)),
      TeamRecord(2, Rec(41, 31, 9)),
      TeamRecord(9, Rec(41, 32, 9)),
      TeamRecord(1, Rec(41, 32, 8)),
      TeamRecord(3, Rec(40, 32, 9)),
      TeamRecord(11, Rec(30, 44, 8))>>

\* Yesterday's standings, in another order and with teams 2 and 3 the
\* other way round: teams 1, 2, 3 and 10 have a game left.
AnPastStandings ==
    <<TeamRecord(6, Rec(47, 30, 5)),
      TeamRecord(4, Rec(48, 30, 4)),
      TeamRecord(5, Rec(47, 31, 4)),
      TeamRecord(7, Rec(46, 32, 4)),
      TeamRecord(10, Rec(46, 31, 4)),
      TeamRecord(8, Rec(45, 33, 4)),
      TeamRecord(3, Rec(41, 30, 10)),
      TeamRecord(9, Rec(41, 32, 9)),
      TeamRecord(1, Rec(41, 32, 8)),
      TeamRecord(2, Rec(40, 33, 8)),
      TeamRecord(11, Rec(30, 44, 8))>>

\* The teams that play on the two days: with target 1, two rivals of its
\* conference and the two teams of the other conference; with target 10,
\* its one conference mate and two teams of the other conference.
Playing == IF my_team = 1 THEN {1, 2, 3, 10, 11} ELSE {1, 2, 10, 11}

Pairings == {q \in Playing \X Playing : q[1] # q[2]}

\* A scheduled game of two playing teams.
TodayGames == {Game(pr[1], pr[2]) : pr \in Pairings}

\* A finished game of two playing teams: 3-2 either way, in regulation
\* (period 3) or in overtime (period 4).
ResultGames ==
    {[home |-> pr[1], away |-> pr[2], home_score |-> sc[1], away_score |-> sc[2],
      current_period |-> p] :
        pr \in Pairings, sc \in {<<3, 2>>, <<2, 3>>}, p \in {3, 4}}

\* The game lists of one day: a team plays at most once a day.
DayLists(S) ==
    {<<>>} \cup {<<g>> : g \in S}
    \cup {<<pr[1], pr[2]>> :
            pr \in {q \in S \X S : {q[1].home, q[1].away} \cap {q[2].home, q[2].away} = {}}}

InitAnalyzer ==
    /\ teams = AnTeams
    /\ my_team \in {1, 10}
    /\ standings = AnStandings
    /\ past_standings = AnPastStandings
    /\ \E gl \in DayLists(TodayGames), rl \in DayLists(ResultGames) :
          /\ Len(gl) + Len(rl) <= MaxGames
          /\ api_games = gl
          /\ api_results = rl
    /\ own_conference_team_ids = {}
    /\ is_result = FALSE
    /\ gi = 0
    /\ my_game = <<>>
    /\ games = <<>>
    /\ my_result = <<>>
    /\ results = <<>>
    /\ own_division_seed = <<>>
    /\ other_division_seed = <<>>
    /\ wildcard_seed = <<>>
    /\ playoffs = <<>>
    /\ moods = <<>>
    /\ cheers = <<>>
    /\ records = <<>>
    /\ game = Game(0, 0)
    /\ mode = "perform"
    /\ sim = "none"
    /\ pc = "analyzer_new"
    /\ base = <<>>
    /\ entries = <<>>
    /\ x = 0
    /\ trial = 0
    /\ times = Trials
    /\ top_3_teams = {}
    /\ wildcard = {}
    /\ qualified = FALSE
    /\ home_win_x = 0
    /\ away_win_x = 0
    /\ ideal_loser = 0
    /\ odds = <<0, 0>>

NextAnalyzer ==
    \/ AnalyzerNew
    \/ PerformSkip
    \/ PerformResolve
    \/ PerformSimulate
    \/ New
    \/ GiveTeamWin
    \/ GiveTeamLoss
    \/ RunBegin
    \/ SampleGame
    \/ RunFinish
    \/ HomeSimReturn
    \/ AwaySimReturn
    \/ PerformPicked
    \/ PerformResults
    \/ PerformSeeds
    \/ MakeResultTables
    \/ MakeGameTables

SpecAnalyzer == InitAnalyzer /\ [][NextAnalyzer]_vars

-----------------------------------------------------------------------------
(* The game tables of any Matchup *)

\* A Matchup given to make_game_table as it stands: its fields are public,
\* and the ideal loser may be any team of the roster.
InitCheer ==
    /\ teams = AnTeams
    /\ my_team = 1
    /\ standings = AnStandings
    /\ past_standings = AnPastStandings
    /\ api_games = <<>>
    /\ api_results = <<>>
    /\ own_conference_team_ids = {}
    /\ is_result = FALSE
    /\ gi = 0
    /\ \E pr \in {q \in (1..5) \X (1..5) : q[1] # q[2]}, l \in 1..5 :
          LET m == Matchup(Game(pr[1], pr[2]), FALSE, l)
          IN /\ my_game = IF m.is_my_team_involed THEN <<m>> ELSE <<>>
             /\ games = IF m.is_my_team_involed THEN <<>> ELSE <<m>>
    /\ my_result = <<>>
    /\ results = <<>>
    /\ own_division_seed = <<>>
    /\ other_division_seed = <<>>
    /\ wildcard_seed = <<>>
    /\ playoffs = <<>>
    /\ moods = <<>>
    /\ cheers = <<>>
    /\ records = <<>>
    /\ game = Game(0, 0)
    /\ mode = "cheer_for"
    /\ sim = "none"
    /\ pc = "done"
    /\ base = <<>>
    /\ entries = <<>>
    /\ x = 0
    /\ trial = 0
    /\ times = Trials
    /\ top_3_teams = {}
    /\ wildcard = {}
    /\ qualified = FALSE
    /\ home_win_x = 0
    /\ away_win_x = 0
    /\ ideal_loser = 0
    /\ odds = <<0, 0>>

\* The Matchups of an analysis, or any Matchup.
InitMatchups == InitAnalyzer \/ InitCheer

SpecCheer == InitMatchups /\ [][NextAnalyzer]_vars

-----------------------------------------------------------------------------
(* The analyzer on a day without games: the seed lists and the bracket *)

\* The record at place p of the final standings: places 1 and 2 are level
\* on points when tie holds, two points apart otherwise.
BracketRecord(p, tie) == IF tie THEN Ladder(p) ELSE Ladder(p + 1)

\* The teams behind the first two places, by id upwards or downwards.
Behind(a, b, down) ==
    LET up == SelectSeq([i \in 1..11 |-> i], LAMBDA t : t \notin {a, b})
    IN IF down THEN [i \in DOMAIN up |-> up[Len(up) + 1 - i]] ELSE up

\* The final standings with teams a and b in the first two places.
BracketStandings(a, b, down, tie) ==
    LET order == <<a, b>> \o Behind(a, b, down)
    IN [p \in DOMAIN order |-> TeamRecord(order[p], BracketRecord(p, tie))]

InitBracket ==
    /\ teams = AnTeams
    /\ my_team \in 1..11
    /\ \E pr \in {q \in (1..11) \X (1..11) : q[1] # q[2]}, down \in BOOLEAN, tie \in BOOLEAN :
          standings = BracketStandings(pr[1], pr[2], down, tie)
    /\ past_standings = standings
    /\ api_games = <<>>
    /\ api_results = <<>>
    /\ own_conference_team_ids = {}
    /\ is_result = FALSE
    /\ gi = 0
    /\ my_game = <<>>
    /\ games = <<>>
    /\ my_result = <<>>
    /\ results = <<>>
    /\ own_division_seed = <<>>
    /\ other_division_seed = <<>>
    /\ wildcard_seed = <<>>
    /\ playoffs = <<>>
    /\ moods = <<>>
    /\ cheers = <<>>
    /\ records = <<>>
    /\ game = Game(0, 0)
    /\ mode = "perform"
    /\ sim = "none"
    /\ pc = "analyzer_new"
    /\ base = <<>>
    /\ entries = <<>>
    /\ x = 0
    /\ trial = 0
    /\ times = Trials
    /\ top_3_teams = {}
    /\ wildcard = {}
    /\ qualified = FALSE
    /\ home_win_x = 0
    /\ away_win_x = 0
    /\ ideal_loser = 0
    /\ odds = <<0, 0>>

NextBracket ==
    \/ AnalyzerNew
    \/ PerformResults
    \/ PerformSeeds

SpecBracket == InitBracket /\ [][NextBracket]_vars

-----------------------------------------------------------------------------
(* Properties of the simulation *)

\* A trial of the live simulation has run to its end; entries holds its
\* final snapshot in sorted order.
TrialCompleted == pc = "run_for" /\ trial > 0

\* The live simulation's base was changed by give_team_win/give_team_loss.
PreSeeded == pc \in {"run_for", "run"} /\ base # Simulation_new(records)

\* C1: in a trial, pre-seeded base included, no team's games_played ever
\* exceeds 82, and when the trial completes every team's games_played is
\* exactly 82.
C1_GamesPlayedAtMost82 ==
    /\ \A i \in DOMAIN base : base[i].games_played <= GAMES
    /\ \A i \in DOMAIN entries : entries[i].games_played <= GAMES
    /\ TrialCompleted => \A i \in DOMAIN entries : entries[i].games_played = GAMES

PointsRelation(e) == e.points = 2 * e.wins + e.ot

\* C2: points = 2*wins + ot_losses holds of every entry of the base and of
\* the working copy in every state: the input records satisfy it, and
\* pre-seeding a win, pre-seeding a loss and every sampled game preserve it,
\* so it holds of every entry when the trial completes.
C2_PointsRelation ==
    /\ \A i \in DOMAIN records : PointsRelation(records[i])
    /\ \A i \in DOMAIN base : PointsRelation(base[i])
    /\ \A i \in DOMAIN entries : PointsRelation(entries[i])

\* A completed trial of a pre-seeded simulation in which sampled games
\* gave one team an overtime loss and one team a win.
C2_Witness ==
    /\ TrialCompleted
    /\ PreSeeded
    /\ \E i \in DOMAIN entries, j \in DOMAIN base :
          /\ entries[i].team_id = base[j].team_id
          /\ entries[i].ot > base[j].ot
    /\ \E i \in DOMAIN entries, j \in DOMAIN base :
          /\ entries[i].team_id = base[j].team_id
          /\ entries[i].wins > base[j].wins

\* C8: the Monte Carlo comparison returns the away team when the home-win
\* scenario qualified the target more often, and the home team when the
\* away-win scenario did.
C8_IdealLoserByHigherCount ==
    pc = "picked" =>
        /\ home_win_x > away_win_x => ideal_loser = game.away
        /\ away_win_x > home_win_x => ideal_loser = game.home

\* pick_ideal_loser returned the away team on a strictly higher home-win count.
C8_Witness ==
    /\ pc = "picked"
    /\ home_win_x > away_win_x
    /\ ideal_loser = game.away

\* pick_ideal_loser returned the home team on a strictly higher away-win count.
C8_WitnessHome ==
    /\ pc = "picked"
    /\ away_win_x > home_win_x
    /\ ideal_loser = game.home

-----------------------------------------------------------------------------
(* Properties of the qualification step *)

\* entries is in the order of the key (points descending, wins descending).
SortedByKey == \A i, j \in DOMAIN entries : i < j => ~Before(entries[j], entries[i])

\* The entry at position i is among the first 3 entries of its division.
DivisionQualifierAt(i) ==
    Cardinality({j \in 1..(i - 1) : entries[j].division_id = entries[i].division_id}) < 3

\* The entry at position i is among the first 2 entries that are not
\* division qualifiers.
WildcardAt(i) ==
    /\ ~DivisionQualifierAt(i)
    /\ Cardinality({j \in 1..(i - 1) : ~DivisionQualifierAt(j)}) < 2

TwoDivisions == Cardinality({entries[i].division_id : i \in DOMAIN entries}) <= 2

\* C3: on a finished season of a conference with two divisions, run returns
\* true iff the target is among the first 3 entries of a division or among
\* the first 2 entries that are not division qualifiers, in the order
\* sorted by (points descending, wins descending).
C3_QualifiesIffTop3OrWildcard ==
    (TrialCompleted /\ TwoDivisions) =>
        /\ SortedByKey
        /\ Ids(entries) = Ids(base)
        /\ qualified <=>
              \E i \in DOMAIN entries :
                  /\ entries[i].team_id = my_team
                  /\ DivisionQualifierAt(i) \/ WildcardAt(i)

\* A finished season in which the target misses both the division berths
\* and the wildcard slots, behind a team level with it on points and wins.
C3_Witness ==
    /\ TrialCompleted
    /\ Cardinality({entries[i].division_id : i \in DOMAIN entries}) = 2
    /\ ~qualified
    /\ \E i, j \in DOMAIN entries :
          /\ entries[j].team_id = my_team
          /\ i < j
          /\ WildcardAt(i)
          /\ ~Before(entries[i], entries[j])

\* A finished season in which the target takes a wildcard slot.
C3_WitnessWildcard ==
    /\ TrialCompleted
    /\ Cardinality({entries[i].division_id : i \in DOMAIN entries}) = 2
    /\ qualified
    /\ my_team \in wildcard
    /\ Cardinality(top_3_teams) = 6

\* Scenario A: 8 teams in 2 divisions of 4, 3 teams of the target's
\* division above it in points, and 2 teams of the other division with
\* more points than the target.
ScenarioA ==
    LET mine == {i \in DOMAIN entries : entries[i].team_id = my_team}
        own == {i \in DOMAIN entries : entries[i].division_id = teams[my_team].division}
        other == DOMAIN entries \ own
    IN /\ Len(entries) = 8
       /\ Cardinality(own) = 4
       /\ Cardinality(other) = 4
       /\ \E m \in mine :
             /\ Cardinality({i \in own : entries[i].points > entries[m].points}) = 3
             /\ Cardinality({i \in other : entries[i].points > entries[m].points}) >= 2

\* C4 as stated: under scenario A the rule returns "does not qualify".
C4_ScenarioA_DoesNotQualify == (TrialCompleted /\ ScenarioA) => ~qualified

\* C4, amended: under scenario A the rule returns "qualifies": the six
\* division berths leave only the target and the other division's fourth
\* team, and both take a wildcard slot.
C4_ScenarioA_Qualifies ==
    (TrialCompleted /\ ScenarioA) =>
        /\ qualified
        /\ my_team \in wildcard
        /\ Cardinality(top_3_teams) = 6

\* Scenario A with all four teams of the other division above the target.
C4_Witness ==
    /\ TrialCompleted
    /\ ScenarioA
    /\ \A i \in DOMAIN entries :
          entries[i].team_id # my_team => Before(entries[i], entries[Len(entries)])
    /\ entries[Len(entries)].team_id = my_team

-----------------------------------------------------------------------------
(* Properties of the analyzer *)

\* Every Matchup perform has kept so far.
Kept == my_game \o games \o my_result \o results

\* simulation::pick_ideal_loser is running, or has just returned, for game.
InPickIdealLoser == pc \in {"new", "give_win", "give_loss", "run_for", "run", "picked"}

Plays(t, g) == g.home = t \/ g.away = t

\* Team t is in the target's conference, by the roster.
InConference(t) == teams[t].conference = teams[my_team].conference

ExactlyOneInConference(g) == InConference(g.home) # InConference(g.away)

\* C6: for a game the target plays in, pick_winner returns the opponent as
\* ideal loser, and pick_ideal_loser is never running for such a game.
C6_TargetGameOpponentLoses ==
    /\ \A i \in DOMAIN Kept :
          /\ Kept[i].game.home = my_team => Kept[i].ideal_loser = Kept[i].game.away
          /\ Kept[i].game.away = my_team => Kept[i].ideal_loser = Kept[i].game.home
    /\ InPickIdealLoser => ~Plays(my_team, game)

\* The analysis holds the target's game of today, played away against a
\* team of its own conference, and its result of yesterday, played at home.
C6_Witness ==
    /\ pc = "done"
    /\ my_game # <<>>
    /\ my_game[1].game.away = my_team
    /\ InConference(my_game[1].game.home)
    /\ my_game[1].ideal_loser = my_game[1].game.home
    /\ my_result # <<>>
    /\ my_result[1].game.home = my_team

\* The ideal loser of a kept game with exactly one participant in the
\* target's conference is that participant.
InConferenceParticipantLoses(m) ==
    /\ InConference(m.game.home) => m.ideal_loser = m.game.home
    /\ InConference(m.game.away) => m.ideal_loser = m.game.away

\* C7 as stated: for every game with exactly one participant in the
\* target's conference the in-conference participant is the ideal loser,
\* and no simulation runs for the game.
C7_OneInConference ==
    /\ \A i \in DOMAIN Kept :
          ExactlyOneInConference(Kept[i].game) => InConferenceParticipantLoses(Kept[i])
    /\ InPickIdealLoser => ~ExactlyOneInConference(game)

\* C7, amended: for every game the target does not play in and that has
\* exactly one participant in the target's conference, the in-conference
\* participant is the ideal loser, and no simulation runs for a game with
\* exactly one participant in the conference.
C7_OneInConferenceTargetAbsent ==
    /\ \A i \in DOMAIN Kept :
          (ExactlyOneInConference(Kept[i].game) /\ ~Plays(my_team, Kept[i].game))
              => InConferenceParticipantLoses(Kept[i])
    /\ InPickIdealLoser => ~ExactlyOneInConference(game)

\* The analysis holds a game of today whose away team alone is in the
\* conference and a result whose home team alone is.
C7_Witness ==
    /\ pc = "done"
    /\ \E i \in DOMAIN games :
          /\ InConference(games[i].game.away)
          /\ ~InConference(games[i].game.home)
          /\ games[i].ideal_loser = games[i].game.away
    /\ \E i \in DOMAIN results :
          /\ InConference(results[i].game.home)
          /\ ~InConference(results[i].game.away)
          /\ results[i].ideal_loser = results[i].game.home

\* The games of a list kept in games/results: the target absent and a
\* participant in the target's conference.
RelevantOthers(list) ==
    SelectSeq(list, LAMBDA g : ~Plays(my_team, g)
                                /\ (InConference(g.home) \/ InConference(g.away)))

GamesOf(ms) == [i \in DOMAIN ms |-> ms[i].game]

Irrelevant(g) == ~Plays(my_team, g) /\ ~InConference(g.home) /\ ~InConference(g.away)

\* C9: in the analysis perform returns, games and results hold exactly the
\* games of their list that the target does not play in and that have a
\* participant in the target's conference; a game of neither the target
\* nor its conference is in none of my_game, games, my_result, results at
\* any time, and pick_ideal_loser is never running for it.
C9_KeepsRelevantGames ==
    /\ pc \in {"analyzed", "done"} =>
          /\ GamesOf(games) = RelevantOthers(api_games)
          /\ GamesOf(results) = RelevantOthers(api_results)
    /\ \A i \in DOMAIN Kept : ~Irrelevant(Kept[i].game)
    /\ InPickIdealLoser => ~Irrelevant(game)

\* perform returned an analysis of a day with a kept game and a dropped
\* one, the dropped one first in the list.
C9_Witness ==
    /\ pc = "done"
    /\ Len(api_games) = 2
    /\ Irrelevant(api_games[1])
    /\ Len(games) = 1
    /\ games[1].game = api_games[2]

\* perform returned an analysis of a day whose only result was dropped.
C9_WitnessResult ==
    /\ pc = "done"
    /\ Len(api_results) = 1
    /\ Irrelevant(api_results[1])
    /\ results = <<>>
    /\ my_result = <<>>

\* The team with fewer goals in a finished game.
ActualLoser(g) == IF g.home_score < g.away_score THEN g.home ELSE g.away

\* C10: the mood of a finished game's Matchup is "Good" when the actual
\* loser is the ideal loser and the game went to overtime, "Great" when it
\* is and the game ended in regulation, "Bad" when it is not.
C10_Mood ==
    pc = "done" =>
        /\ Len(moods) = Len(my_result \o results)
        /\ \A i \in DOMAIN moods :
              LET m == (my_result \o results)[i]
              IN /\ (ActualLoser(m.game) = m.ideal_loser /\ m.game.current_period >= 4)
                        => moods[i] = "Good"
                 /\ (ActualLoser(m.game) = m.ideal_loser /\ m.game.current_period < 4)
                        => moods[i] = "Great"
                 /\ ActualLoser(m.game) # m.ideal_loser => moods[i] = "Bad"

\* The result tables hold a "Good" for an overtime game and a "Bad".
C10_Witness ==
    /\ pc = "done"
    /\ Len(moods) = 2
    /\ moods[1] = "Good"
    /\ moods[2] = "Bad"
    /\ (my_result \o results)[2].game.current_period = 4

\* The result tables hold a "Great" for a game the simulation resolved.
C10_WitnessGreat ==
    /\ pc = "done"
    /\ \E i \in DOMAIN results :
          /\ moods[Len(my_result) + i] = "Great"
          /\ InConference(results[i].game.home)
          /\ InConference(results[i].game.away)

-----------------------------------------------------------------------------
(* Properties of the seed lists and the bracket *)

\* The records of the target's conference, in standings order, by the roster.
ConferenceRecords == SelectSeq(standings, LAMBDA r : InConference(r.team))

\* The conference's records of the target's division / of the other division.
OwnDivisionRecords ==
    SelectSeq(ConferenceRecords, LAMBDA r : teams[r.team].division = teams[my_team].division)

OtherDivisionRecords ==
    SelectSeq(ConferenceRecords, LAMBDA r : teams[r.team].division # teams[my_team].division)

\* The conference's records behind the first 3 of their division.
RemainingRecords ==
    LET first3 == {OwnDivisionRecords[i].team : i \in 1..Min(3, Len(OwnDivisionRecords))}
                  \cup {OtherDivisionRecords[i].team : i \in 1..Min(3, Len(OtherDivisionRecords))}
    IN SelectSeq(ConferenceRecords, LAMBDA r : r.team \notin first3)

RecordsOf(seeds) == [i \in DOMAIN seeds |-> seeds[i].record]

\* perform has returned its Analysis.
Analyzed == pc \in {"analyzed", "done"}

\* C11: the bracket has exactly 4 pairings: the division leader with more
\* points is the high team against the 2nd wildcard, the leader with fewer
\* points the high team against the 1st wildcard, and each division's 2nd
\* seed is the high team against its 3rd seed.
C11_Bracket ==
    Analyzed =>
        LET own == OwnDivisionRecords[1]
            other == OtherDivisionRecords[1]
        IN /\ Len(playoffs) = 4
           /\ own.points > other.points =>
                 /\ playoffs[1].high_team = own
                 /\ playoffs[2].high_team = other
           /\ other.points > own.points =>
                 /\ playoffs[1].high_team = other
                 /\ playoffs[2].high_team = own
           /\ {playoffs[1].high_team, playoffs[2].high_team} = {own, other}
           /\ playoffs[1].low_team = RemainingRecords[2]
           /\ playoffs[2].low_team = RemainingRecords[1]
           /\ playoffs[3] = PlayoffMatchup(OwnDivisionRecords[2], OwnDivisionRecords[3])
           /\ playoffs[4] = PlayoffMatchup(OtherDivisionRecords[2], OtherDivisionRecords[3])

\* A bracket in which the other division's leader has more points than the
\* target's division's leader.
C11_Witness ==
    /\ pc = "analyzed"
    /\ OtherDivisionRecords[1].points > OwnDivisionRecords[1].points
    /\ playoffs[1].high_team = OtherDivisionRecords[1]
    /\ playoffs[1].low_team = wildcard_seed[2].record

\* A bracket of two division leaders level on points.
C11_WitnessLevel ==
    /\ pc = "analyzed"
    /\ OtherDivisionRecords[1].points = OwnDivisionRecords[1].points

Seeded(seeds, recs) ==
    /\ RecordsOf(seeds) = recs
    /\ \A i \in DOMAIN seeds : seeds[i].seed = i

\* C12: each division list holds the first 3 records of that division of
\* the target's conference, in standings order, with seeds 1, 2, 3; the
\* wildcard list holds the conference's remaining records in standings
\* order with seeds 1..k; every record of the conference is in exactly one
\* list and no record of another conference is in any.
C12_SeedLists ==
    Analyzed =>
        /\ Seeded(own_division_seed, Take(OwnDivisionRecords, 3))
        /\ Seeded(other_division_seed, Take(OtherDivisionRecords, 3))
        /\ Seeded(wildcard_seed, RemainingRecords)
        /\ \A n \in DOMAIN standings :
              LET r == standings[n]
                  places == Cardinality({i \in DOMAIN own_division_seed :
                                            own_division_seed[i].record = r})
                            + Cardinality({i \in DOMAIN other_division_seed :
                                              other_division_seed[i].record = r})
                            + Cardinality({i \in DOMAIN wildcard_seed :
                                              wildcard_seed[i].record = r})
              IN places = IF InConference(r.team) THEN 1 ELSE 0

\* Seed lists of a target of the smaller division: 3 wildcard seeds, the
\* first of them from the other division, with records of the other
\* conference ahead of it in the standings.
C12_Witness ==
    /\ pc = "analyzed"
    /\ teams[my_team].division = 2
    /\ Len(wildcard_seed) = 3
    /\ teams[wildcard_seed[1].record.team].division = 1
    /\ wildcard_seed[3].seed = 3
    /\ ~InConference(standings[Len(standings)].team)

\* C15: with fewer than 3 teams in a division or fewer than 2 wildcard
\* teams, perform does not crash on an index out of range.
C15_InsufficientDataIsError ==
    (Len(OwnDivisionRecords) < 3 \/ Len(OtherDivisionRecords) < 3
        \/ Len(RemainingRecords) < 2)
      => pc # "panic"

-----------------------------------------------------------------------------
(* Properties of the trials *)

\* run_for has returned to its caller.
Returned == pc \in {"done", "returned", "picked"} \/ (pc = "new" /\ sim = "away")

\* C13: the number of qualifying trials run_for returns lies in 0..times,
\* so the quotient odds_for_team forms is in [0, 1]; with times = 1 the
\* count is 0 or 1.
C13_OddsBounded ==
    /\ x \in 0..times
    /\ home_win_x \in 0..times
    /\ away_win_x \in 0..times
    /\ pc = "done" => (odds[2] > 0 /\ odds[1] \in 0..odds[2])
    /\ (Returned /\ times = 1) => x \in {0, 1}

\* odds_for_team returned an estimate of 1 after a run_for that counted
\* every trial.
C13_Witness ==
    /\ pc = "done"
    /\ odds[1] = odds[2]
    /\ odds[2] = Trials

\* run_for(1) returned 1.
C13_WitnessOneTrial ==
    /\ pc = "returned"
    /\ times = 1
    /\ x = 1

\* C14: asked for 0 trials, run_for does not return a count.
C14_ZeroTrialsIsError == times = 0 => ~Returned

\* A base entry random_event cannot draw for: it has games to play and all
\* three of its counts are zero.
ZeroWeight(e) == e.games_played < GAMES /\ e.wins = 0 /\ e.losses = 0 /\ e.ot = 0

\* C16: with a zero-weight entry in the base no trial is started and
\* nothing crashes during one.
C16_ZeroWeightDetectedBeforeTrials ==
    (\E i \in DOMAIN base : ZeroWeight(base[i])) => pc \notin {"run", "panic"}

\* C17: while run_for and run execute, the base and the standings they
\* were built from do not change, and every trial starts on a copy of the
\* base.
C17_BaseNeverMutated ==
    [][/\ pc \in {"run_for", "run"} =>
            /\ base' = base
            /\ records' = records
            /\ standings' = standings
            /\ past_standings' = past_standings
       /\ (pc = "run_for" /\ pc' = "run") => entries' = base]_vars

\* The last trial of a run_for is over; it changed its copy and the base
\* still holds the pre-seeded records.
C17_Witness ==
    /\ TrialCompleted
    /\ trial = Trials
    /\ PreSeeded
    /\ \E i \in DOMAIN base : base[i].games_played < GAMES
    /\ \A i \in DOMAIN entries : entries[i].games_played >= GAMES

\* The entry e2 is e after one game with the given gains.
Gains(e, e2, w, l, o, p) ==
    e2 = [e EXCEPT !.games_played = @ + 1, !.wins = @ + w, !.losses = @ + l,
                   !.ot = @ + o, !.points = @ + p]

\* C18: a sampled game changes one entry of the working copy, by an event
\* whose count in that team's base entry is positive: games_played + 1,
\* one of wins/losses/ot + 1, points + 2 for a win, + 1 for an overtime
\* loss, + 0 for a loss; no other entry changes.
C18_SampledGame ==
    [][(pc = "run" /\ pc' = "run") =>
          \E i \in DOMAIN entries :
              /\ DOMAIN entries' = DOMAIN entries
              /\ \A j \in DOMAIN entries \ {i} : entries'[j] = entries[j]
              /\ base[i].team_id = entries[i].team_id
              /\ \/ base[i].wins > 0 /\ Gains(entries[i], entries'[i], 1, 0, 0, 2)
                 \/ base[i].losses > 0 /\ Gains(entries[i], entries'[i], 0, 1, 0, 0)
                 \/ base[i].ot > 0 /\ Gains(entries[i], entries'[i], 0, 0, 1, 1)]_vars

\* A team without an overtime loss in its base has sampled two games.
C18_Witness ==
    /\ pc = "run"
    /\ \E i \in DOMAIN entries :
          /\ base[i].ot = 0
          /\ base[i].wins > 0
          /\ entries[i].games_played = base[i].games_played + 2
          /\ entries[i].wins > base[i].wins
          /\ entries[i].losses > base[i].losses

\* The conference's records with one more win for team w and one more loss
\* for team l.
Scenario(w, l) ==
    LET conf == SelectSeq(records, LAMBDA r : InConference(r.team))
    IN [i \in DOMAIN conf |->
          [team_id |-> conf[i].team,
           division_id |-> teams[conf[i].team].division,
           wins |-> conf[i].wins + (IF conf[i].team = w THEN 1 ELSE 0),
           losses |-> conf[i].losses + (IF conf[i].team = l THEN 1 ELSE 0),
           ot |-> conf[i].ot,
           games_played |-> conf[i].games_played + (IF conf[i].team \in {w, l} THEN 1 ELSE 0),
           points |-> conf[i].points + (IF conf[i].team = w THEN 2 ELSE 0)]]

\* C19: the home-win simulation runs on the conference's records with only
\* the home team's wins + 1, points + 2, games_played + 1 and the away
\* team's losses + 1, games_played + 1; the away-win simulation on the
\* mirror image, built from the same records.
C19_PairedScenarios ==
    pc \in {"run_for", "run"} =>
        /\ sim = "home" => base = Scenario(game.home, game.away)
        /\ sim = "away" => base = Scenario(game.away, game.home)

\* The away-win simulation has run its trials after the home-win one.
C19_Witness ==
    /\ pc = "run_for"
    /\ sim = "away"
    /\ trial = Trials
    /\ base # Simulation_new(records)
    /\ base = give_team_loss(give_team_win(Simulation_new(records), game.away), game.home)

\* random_event can draw for every entry of the base that has games to play.
Sampleable == \A i \in DOMAIN base : ~ZeroWeight(base[i])

Max(a, b) == IF a > b THEN a ELSE b

\* The games team_id's entry sampled in the trial that has just completed.
Sampled(i) ==
    LET b == base[Find(base, entries[i].team_id)]
    IN entries[i].wins + entries[i].losses + entries[i].ot - (b.wins + b.losses + b.ot)

\* C20: a trial samples exactly max(0, 82 - games_played) games per team;
\* run_for returns only after exactly `times` trials, each counted in x iff
\* the target qualified; and from a base random_event can draw for,
\* run_for does return.
C20_Termination ==
    /\ [](TrialCompleted =>
            \A i \in DOMAIN entries :
                LET b == base[Find(base, entries[i].team_id)]
                IN /\ Sampled(i) = Max(0, GAMES - b.games_played)
                   /\ entries[i].games_played = b.games_played + Sampled(i))
    /\ [](Returned => trial = times)
    /\ [][(pc = "run" /\ pc' = "run_for") =>
             /\ trial' = trial + 1
             /\ x' = x + (IF qualified' THEN 1 ELSE 0)]_vars
    /\ ((pc = "run_for" /\ trial = 0 /\ Sampleable) ~> Returned)

\* run_for returned after all its trials with the target qualified in
\* some and not in others.
C20_Witness ==
    /\ pc = "done"
    /\ trial = Trials
    /\ x > 0
    /\ x < trial

-----------------------------------------------------------------------------
(* Properties of cheer_for, of the tie and of the two sets *)

\* The Matchup's ideal loser is one of its game's two participants.
LoserPlays(m) == m.ideal_loser \in {m.game.home, m.game.away}

\* The Matchups in hand came out of Analyzer::perform.
FromPerform == mode # "cheer_for"

\* C21: every Matchup perform keeps has one of its game's participants as
\* ideal loser, cheer_for returns the other participant for it and its
\* last arm is never taken; for a Matchup whose ideal loser is neither
\* participant cheer_for panics and returns no team.
C21_CheerFor ==
    /\ FromPerform =>
          /\ \A i \in DOMAIN Kept : LoserPlays(Kept[i])
          /\ \A i \in DOMAIN cheers : DOMAIN cheers[i] = {"team"}
    /\ pc = "rendered" =>
          /\ Len(cheers) = Len(my_game \o games)
          /\ \A i \in DOMAIN cheers :
                LET m == (my_game \o games)[i]
                IN /\ LoserPlays(m)
                   /\ DOMAIN cheers[i] = {"team"}
                   /\ cheers[i].team # m.ideal_loser
                   /\ cheers[i].team \in {m.game.home, m.game.away}
    /\ (pc \in {"rendered", "panic"} /\ cheers # <<>> /\ ~LoserPlays((my_game \o games)[Len(cheers)]))
          => /\ pc = "panic"
             /\ DOMAIN cheers[Len(cheers)] = {"panic"}
    /\ (pc \in {"rendered", "panic"} /\ \E i \in DOMAIN (my_game \o games) :
                                            ~LoserPlays((my_game \o games)[i]))
          => pc = "panic"

\* The game tables of an analysis: the target's game and a game the
\* simulation resolved, each with the other participant to cheer for.
C21_Witness ==
    /\ pc = "rendered"
    /\ FromPerform
    /\ Len(cheers) = 2
    /\ my_game # <<>>
    /\ InConference(games[1].game.home)
    /\ InConference(games[1].game.away)
    /\ cheers[2].team # games[1].ideal_loser

\* cheer_for panicked on a Matchup whose ideal loser plays in neither side.
C21_WitnessMalformed ==
    /\ pc = "panic"
    /\ ~FromPerform
    /\ cheers = <<[panic |-> "invalid match loser"]>>

\* C22: on equal counts pick_ideal_loser returns the home team; it returns
\* the away team only on a strictly greater home-win count.
C22_TieGoesHome ==
    pc = "picked" =>
        /\ home_win_x = away_win_x => ideal_loser = game.home
        /\ ideal_loser = game.away => home_win_x > away_win_x
        /\ ideal_loser \in {game.home, game.away}

\* pick_ideal_loser returned the home team on counts equal and strictly
\* between 0 and the trial count.
C22_Witness ==
    /\ pc = "picked"
    /\ home_win_x = away_win_x
    /\ home_win_x > 0
    /\ home_win_x < times
    /\ ideal_loser = game.home

\* The tie at 0 and the tie at the trial count.
C22_WitnessNone ==
    pc = "picked" /\ home_win_x = 0 /\ away_win_x = 0 /\ ideal_loser = game.home

C22_WitnessAll ==
    pc = "picked" /\ home_win_x = times /\ away_win_x = times /\ ideal_loser = game.home

\* The divisions of the entries and the entries of a division.
Divisions == {entries[i].division_id : i \in DOMAIN entries}

TeamsOf(d) == {entries[i].team_id : i \in {j \in DOMAIN entries : entries[j].division_id = d}}

\* C23: when a trial completes, top_3_teams and wildcard are disjoint,
\* top_3_teams holds at most 3 teams of a division and wildcard at most 2
\* teams; in a conference of two divisions of 3 or more teams each and 8 or
\* more teams in all exactly 8 teams qualify; in a conference of 8 teams
\* split 4/4 every team qualifies.
C23_QualifierSets ==
    TrialCompleted =>
        /\ top_3_teams \cap wildcard = {}
        /\ \A d \in Divisions : Cardinality(top_3_teams \cap TeamsOf(d)) <= 3
        /\ Cardinality(wildcard) <= 2
        /\ (top_3_teams \cup wildcard) \subseteq Ids(entries)
        /\ (/\ Cardinality(Divisions) = 2
            /\ \A d \in Divisions : Cardinality(TeamsOf(d)) >= 3
            /\ Len(entries) >= 8)
              => Cardinality(top_3_teams \cup wildcard) = 8
        /\ (/\ Len(entries) = 8
            /\ Cardinality(Divisions) = 2
            /\ \A d \in Divisions : Cardinality(TeamsOf(d)) = 4)
              => top_3_teams \cup wildcard = Ids(entries)

\* A finished season of two divisions of 3 and 5 teams or more in which
\* 8 teams qualify.
C23_Witness ==
    /\ TrialCompleted
    /\ Cardinality(Divisions) = 2
    /\ Cardinality(TeamsOf(teams[my_team].division)) = 3
    /\ Len(entries) >= 8
    /\ Cardinality(top_3_teams) = 6
    /\ Cardinality(wildcard) = 2

\* A finished season of 8 teams split 4/4.
C23_WitnessEven ==
    /\ TrialCompleted
    /\ Len(entries) = 8
    /\ \A d \in Divisions : Cardinality(TeamsOf(d)) = 4
    /\ top_3_teams \cup wildcard = Ids(entries)

\* A finished season of a conference with a division of 2 teams, in which
\* fewer than 8 teams qualify.
C23_WitnessSmall ==
    /\ TrialCompleted
    /\ Cardinality(Divisions) = 2
    /\ \E d \in Divisions : Cardinality(TeamsOf(d)) = 2
    /\ Cardinality(top_3_teams \cup wildcard) = 7

=============================================================================
